---- MODULE Spec2Model ----
(***************************************************************************)
(* sectok: encoding and decoding of RFC 8959 secret-token URIs.            *)
(*                                                                         *)
(* Bytes are the integers 0..255; a byte string (&[u8], and a String,      *)
(* which is its UTF-8 bytes) is a sequence of bytes.  Option<String> is a  *)
(* record [some, val].                                                     *)
(***************************************************************************)
EXTENDS Integers, Sequences, FiniteSets

VARIABLES mode, input, encoded, decoded, nested, pc

vars == <<mode, input, encoded, decoded, nested, pc>>

---------------------------------------------------------------------------
(* Constants of the library *)

\* "secret-token"
SCHEME == <<115, 101, 99, 114, 101, 116, 45, 116, 111, 107, 101, 110>>

\* "secret-token:"
PREFIX == <<115, 101, 99, 114, 101, 116, 45, 116, 111, 107, 101, 110, 58>>

None == [some |-> FALSE, val |-> <<>>]

Some(v) == [some |-> TRUE, val |-> v]

---------------------------------------------------------------------------
(* The set of bytes encode escapes *)

\* u8::is_ascii_alphanumeric
IsAsciiAlphanumeric(b) == b \in 48..57 \/ b \in 65..90 \/ b \in 97..122

\* percent_encoding::NON_ALPHANUMERIC: every ASCII byte that is no letter or digit
NON_ALPHANUMERIC == {b \in 0..127 : ~IsAsciiAlphanumeric(b)}

\* The same set with the remove(b'@') of the last line forgotten.
DISALLOWED_CHARACTERS_KeepsAt ==
    NON_ALPHANUMERIC \ {45, 46, 95, 126, 33, 36, 38, 39, 40, 41, 42, 43, 44, 59, 61, 58}

\* NON_ALPHANUMERIC with - . _ ~ ! $ & ' ( ) * + , ; = : @ removed
DISALLOWED_CHARACTERS ==
    NON_ALPHANUMERIC \ {45, 46, 95, 126, 33, 36, 38, 39, 40, 41, 42, 43, 44, 59, 61, 58, 64}

\* should_percent_encode over NON_ALPHANUMERIC itself, none of its bytes removed
should_percent_encode_AllNonAlnum(b) == b > 127 \/ b \in NON_ALPHANUMERIC

\* AsciiSet::should_percent_encode: every non-ASCII byte, and the bytes of the set
should_percent_encode(b) == b > 127 \/ b \in DISALLOWED_CHARACTERS

\* the character of the hexadecimal digit n, in upper case
UpperHexDigit(n) == IF n < 10 THEN 48 + n ELSE 55 + n

\* the character of the hexadecimal digit n, in lower case
LowerHexDigit(n) == IF n < 10 THEN 48 + n ELSE 87 + n

\* percent_encode_byte writing lower-case digits
percent_encode_byte_Lower(b) == <<37, LowerHexDigit(b \div 16), LowerHexDigit(b % 16)>>

\* percent_encoding::percent_encode_byte: "%XX", upper case
percent_encode_byte(b) == <<37, UpperHexDigit(b \div 16), UpperHexDigit(b % 16)>>

RECURSIVE percent_encode(_)
\* percent_encode(bytes, DISALLOWED_CHARACTERS), collected into a string
percent_encode(bytes) ==
    IF bytes = <<>> THEN <<>>
    ELSE (IF should_percent_encode(Head(bytes))
          THEN percent_encode_byte(Head(bytes))
          ELSE <<Head(bytes)>>) \o percent_encode(Tail(bytes))

\* pub fn encode
encode(secret) == PREFIX \o percent_encode(secret)

---------------------------------------------------------------------------
(* decode *)

\* char::to_digit(16) of a byte: the digit's value, -1 for None
to_digit16(b) ==
    IF b \in 48..57 THEN b - 48
    ELSE IF b \in 65..70 THEN b - 55
    ELSE IF b \in 97..102 THEN b - 87
    ELSE -1

RECURSIVE percent_decode(_)
\* percent_encoding::percent_decode: a '%' followed by two hex digits becomes the
\* byte; any other byte, a '%' not followed by two hex digits included, is kept
percent_decode(bytes) ==
    IF bytes = <<>> THEN <<>>
    ELSE IF /\ Head(bytes) = 37
            /\ Len(bytes) >= 3
            /\ to_digit16(bytes[2]) >= 0
            /\ to_digit16(bytes[3]) >= 0
         THEN <<to_digit16(bytes[2]) * 16 + to_digit16(bytes[3])>>
                  \o percent_decode(SubSeq(bytes, 4, Len(bytes)))
         ELSE <<Head(bytes)>> \o percent_decode(Tail(bytes))

\* a UTF-8 continuation byte within lo..hi at position i
Cont(bytes, i, lo, hi) == i <= Len(bytes) /\ bytes[i] >= lo /\ bytes[i] <= hi

\* the length of the well-formed UTF-8 sequence bytes starts with, 0 when none
Utf8SeqLen(bytes) ==
    LET b == bytes[1] IN
    IF b <= 127 THEN 1
    ELSE IF b \in 194..223 THEN (IF Cont(bytes, 2, 128, 191) THEN 2 ELSE 0)
    ELSE IF b = 224 THEN
        (IF Cont(bytes, 2, 160, 191) /\ Cont(bytes, 3, 128, 191) THEN 3 ELSE 0)
    ELSE IF b \in 225..236 \/ b \in 238..239 THEN
        (IF Cont(bytes, 2, 128, 191) /\ Cont(bytes, 3, 128, 191) THEN 3 ELSE 0)
    ELSE IF b = 237 THEN
        (IF Cont(bytes, 2, 128, 159) /\ Cont(bytes, 3, 128, 191) THEN 3 ELSE 0)
    ELSE IF b = 240 THEN
        (IF Cont(bytes, 2, 144, 191) /\ Cont(bytes, 3, 128, 191)
            /\ Cont(bytes, 4, 128, 191) THEN 4 ELSE 0)
    ELSE IF b \in 241..243 THEN
        (IF Cont(bytes, 2, 128, 191) /\ Cont(bytes, 3, 128, 191)
            /\ Cont(bytes, 4, 128, 191) THEN 4 ELSE 0)
    ELSE IF b = 244 THEN
        (IF Cont(bytes, 2, 128, 143) /\ Cont(bytes, 3, 128, 191)
            /\ Cont(bytes, 4, 128, 191) THEN 4 ELSE 0)
    ELSE 0

RECURSIVE from_utf8_ok(_)
\* PercentDecode::decode_utf8 is Ok: the bytes are well-formed UTF-8
from_utf8_ok(bytes) ==
    IF bytes = <<>> THEN TRUE
    ELSE LET n == Utf8SeqLen(bytes) IN
         n > 0 /\ from_utf8_ok(SubSeq(bytes, n + 1, Len(bytes)))

\* the character class of ALLOWED_CHARACTERS_RE: [a-zA-Z0-9._~!$&'()*+,;=:@-]
ReClass == (97..122) \cup (65..90) \cup (48..57)
               \cup {46, 95, 126, 33, 36, 38, 39, 40, 41, 42, 43, 44, 59, 61, 58, 64, 45}

\* [a-fA-F0-9]
ReHex == (97..102) \cup (65..70) \cup (48..57)

RECURSIVE MatchFrom(_, _)
\* ([class]|%[hex]{2})*$ matched from position i: the two alternatives start with
\* different bytes, so the match is deterministic
MatchFrom(rest, i) ==
    IF i > Len(rest) THEN TRUE
    ELSE IF rest[i] \in ReClass THEN MatchFrom(rest, i + 1)
    ELSE IF /\ rest[i] = 37
            /\ i + 2 <= Len(rest)
            /\ rest[i + 1] \in ReHex
            /\ rest[i + 2] \in ReHex
         THEN MatchFrom(rest, i + 3)
         ELSE FALSE

\* the regex without its closing $: any prefix matches, the empty one included
is_match_NoEndAnchor(rest) == TRUE

\* ALLOWED_CHARACTERS_RE.is_match(rest): ^( ... )*$
is_match(rest) == MatchFrom(rest, 1)

\* a case-insensitive comparison of the prefix
starts_with_IgnoreCase(uri, prefix) ==
    /\ Len(uri) >= Len(prefix)
    /\ \A i \in 1..Len(prefix) :
           \/ uri[i] = prefix[i]
           \/ (prefix[i] \in 97..122 /\ uri[i] = prefix[i] - 32)

\* <[u8]>::starts_with
starts_with(uri, prefix) ==
    /\ Len(uri) >= Len(prefix)
    /\ SubSeq(uri, 1, Len(prefix)) = prefix

\* decode with the b"" arm of the match left out
decode_NoEmptyArm(uri) ==
    IF ~starts_with(uri, PREFIX) THEN None
    ELSE LET rest == SubSeq(uri, Len(PREFIX) + 1, Len(uri))
             bytes == percent_decode(rest)
         IN  IF from_utf8_ok(bytes)
             THEN (IF is_match(rest) THEN Some(bytes) ELSE None)
             ELSE None

\* decode returning the bytes on the Err arm as well
decode_IgnoresUtf8Err(uri) ==
    IF ~starts_with(uri, PREFIX) THEN None
    ELSE LET rest == SubSeq(uri, Len(PREFIX) + 1, Len(uri))
             bytes == percent_decode(rest)
         IN  IF rest = <<>> THEN None
             ELSE IF is_match(rest) THEN Some(bytes) ELSE None

\* decode without the is_match test
decode_NoGrammar(uri) ==
    IF ~starts_with(uri, PREFIX) THEN None
    ELSE LET rest == SubSeq(uri, Len(PREFIX) + 1, Len(uri))
             bytes == percent_decode(rest)
         IN  IF rest = <<>> THEN None
             ELSE IF from_utf8_ok(bytes) THEN Some(bytes) ELSE None

RECURSIVE StripAll(_)
\* every leading occurrence of the prefix removed
StripAll(uri) ==
    IF starts_with(uri, PREFIX)
    THEN StripAll(SubSeq(uri, Len(PREFIX) + 1, Len(uri)))
    ELSE uri

\* decode stripping every leading occurrence of the prefix
decode_StripsAll(uri) ==
    IF ~starts_with(uri, PREFIX) THEN None
    ELSE LET rest == StripAll(uri)
             bytes == percent_decode(rest)
         IN  IF rest = <<>> THEN None
             ELSE IF from_utf8_ok(bytes)
                  THEN (IF is_match(rest) THEN Some(bytes) ELSE None)
                  ELSE None

\* pub fn decode
decode(uri) ==
    IF ~starts_with(uri, PREFIX) THEN None
    ELSE LET rest == SubSeq(uri, Len(PREFIX) + 1, Len(uri))
             bytes == percent_decode(rest)
         IN  IF rest = <<>> THEN None
             ELSE IF from_utf8_ok(bytes)
                  THEN (IF is_match(rest) THEN Some(bytes) ELSE None)
                  ELSE None

---------------------------------------------------------------------------
(* The inputs: secrets (&str, well-formed UTF-8) and URIs (any bytes) *)

\* the most characters of a secret that is not a single ASCII character
MaxSecretChars == 3

\* the most chunks of a URI's body
MaxChunks == 2

\* char::encode_utf8: the UTF-8 bytes of the code point cp
Utf8Encode(cp) ==
    IF cp < 128 THEN <<cp>>
    ELSE IF cp < 2048 THEN <<192 + (cp \div 64), 128 + (cp % 64)>>
    ELSE IF cp < 65536 THEN
        <<224 + (cp \div 4096), 128 + ((cp \div 64) % 64), 128 + (cp % 64)>>
    ELSE <<240 + (cp \div 262144), 128 + ((cp \div 4096) % 64),
           128 + ((cp \div 64) % 64), 128 + (cp % 64)>>

\* NUL, space, %, :, A, a, ~, DEL, o-acute, L-stroke, the euro sign, U+1F600
SampleChars == {0, 32, 37, 58, 65, 97, 126, 127, 243, 321, 8364, 128512}

RECURSIVE StringsUpTo(_)
\* the strings of at most n sample characters, as UTF-8 bytes
StringsUpTo(n) ==
    IF n = 0 THEN {<<>>}
    ELSE LET shorter == StringsUpTo(n - 1)
         IN  shorter \cup {Utf8Encode(c) \o s : c \in SampleChars, s \in shorter}

\* every single ASCII character, and the strings of sample characters
Secrets == {<<c>> : c \in 0..127} \cup StringsUpTo(MaxSecretChars)

\* "%XY" for byte b, with lower-case digits when lower
Esc(b, lower) ==
    IF lower THEN <<37, LowerHexDigit(b \div 16), LowerHexDigit(b % 16)>>
    ELSE <<37, UpperHexDigit(b \div 16), UpperHexDigit(b % 16)>>

\* raw bytes: NUL, LF, space, %, /, 1, 4, :, A, a, g, ~, DEL, 0x81, 0xC5
RawChunks == {<<b>> : b \in {0, 10, 32, 37, 47, 49, 52, 58, 65, 97, 103, 126, 127, 129, 197}}

\* escapes, in both cases, of space, %, A, ~, and of bytes UTF-8 is made of
EscChunks ==
    {Esc(b, l) : b \in {32, 37, 65, 126, 129, 161, 192, 197, 226, 237, 244},
                 l \in BOOLEAN}

\* the prefix itself, truncated and malformed escapes ("%4", "%g1"), mixed case
\* ("%c5%81"), and the tails of three- and four-byte sequences
LongChunks ==
    { PREFIX,
      <<37, 52>>,
      <<37, 103, 49>>,
      Esc(197, TRUE) \o Esc(129, FALSE),
      Esc(130, FALSE) \o Esc(172, FALSE),
      Esc(160, FALSE) \o Esc(128, FALSE),
      Esc(143, FALSE) \o Esc(191, FALSE) \o Esc(191, FALSE),
      Esc(144, FALSE) \o Esc(128, FALSE) \o Esc(128, FALSE) }

Chunks == RawChunks \cup EscChunks \cup LongChunks

RECURSIVE BodiesUpTo(_)
\* the concatenations of at most n chunks
BodiesUpTo(n) ==
    IF n = 0 THEN {<<>>}
    ELSE LET shorter == BodiesUpTo(n - 1)
         IN  shorter \cup {c \o b : c \in Chunks, b \in shorter}

\* "hello"
Hello == <<104, 101, 108, 108, 111>>

\* what a URI without the prefix starts with: every proper prefix of the prefix,
\* the prefix with one byte in upper case or replaced, all of it in upper case,
\* and the scheme and the prefix after a colon
Heads ==
    {SubSeq(PREFIX, 1, n) : n \in 0..(Len(PREFIX) - 1)}
        \cup {[PREFIX EXCEPT ![i] = IF @ \in 97..122 THEN @ - 32 ELSE 59] :
                  i \in 1..Len(PREFIX)}
        \cup { [i \in 1..Len(PREFIX) |->
                   IF PREFIX[i] \in 97..122 THEN PREFIX[i] - 32 ELSE PREFIX[i]],
               <<58>> \o SCHEME,
               <<58>> \o PREFIX }

Uris ==
    {PREFIX \o b : b \in BodiesUpTo(MaxChunks)}
        \cup {h \o b : h \in Heads, b \in {<<>>, Hello} \cup Chunks}

---------------------------------------------------------------------------
(* The calls *)

Init ==
    /\ \/ mode = "encode" /\ input \in Secrets
       \/ mode = "decode" /\ input \in Uris
    /\ encoded = <<>>
    /\ decoded = None
    /\ nested = None
    /\ pc = "start"

\* encode(secret)
Encode ==
    /\ mode = "encode"
    /\ pc = "start"
    /\ encoded' = encode(input)
    /\ pc' = "encoded"
    /\ UNCHANGED <<mode, input, decoded, nested>>

\* decode(encode(secret))
DecodeEncoded ==
    /\ pc = "encoded"
    /\ decoded' = decode(encoded)
    /\ pc' = "roundtrip"
    /\ UNCHANGED <<mode, input, encoded, nested>>

\* decode(&format!("{}:{}", SCHEME, s)): the secret embedded as it is
DecodeVerbatim ==
    /\ pc = "encoded"
    /\ decoded' = decode(SCHEME \o <<58>> \o input)
    /\ pc' = "verbatim"
    /\ UNCHANGED <<mode, input, encoded, nested>>

\* decode(uri)
Decode ==
    /\ mode = "decode"
    /\ pc = "start"
    /\ decoded' = decode(input)
    /\ pc' = "decoded"
    /\ UNCHANGED <<mode, input, encoded, nested>>

\* decode of the URI behind one more prefix
DecodeNested ==
    /\ pc = "decoded"
    /\ nested' = decode(PREFIX \o input)
    /\ pc' = "nested"
    /\ UNCHANGED <<mode, input, encoded, decoded>>

\* encode(decode(uri).unwrap())
Reencode ==
    /\ pc = "decoded"
    /\ decoded.some
    /\ encoded' = encode(decoded.val)
    /\ pc' = "reencoded"
    /\ UNCHANGED <<mode, input, decoded, nested>>

Next ==
    \/ Encode
    \/ DecodeEncoded
    \/ DecodeVerbatim
    \/ Decode
    \/ DecodeNested
    \/ Reencode

Spec == Init /\ [][Next]_vars

---------------------------------------------------------------------------
(* What the properties are stated with *)

\* the allow-list as the specification lists it: the alphanumerics and
\* - . _ ~ ! $ & ' ( ) * + , ; = : @
AllowList ==
    (48..57) \cup (65..90) \cup (97..122)
        \cup {45, 46, 95, 126, 33, 36, 38, 39, 40, 41, 42, 43, 44, 59, 61, 58, 64}

\* 0-9, A-F, a-f
HexDigits == (48..57) \cup (65..70) \cup (97..102)

\* "0123456789ABCDEF"
UpperHexChars == <<48, 49, 50, 51, 52, 53, 54, 55, 56, 57, 65, 66, 67, 68, 69, 70>>

\* the value of the hex digit c
HexVal(c) == IF c <= 57 THEN c - 48 ELSE IF c <= 70 THEN c - 55 ELSE c - 87

\* u begins, byte for byte, with the 13 bytes of "secret-token:"
HasExactPrefix(u) ==
    /\ Len(u) >= Len(PREFIX)
    /\ \A i \in 1..Len(PREFIX) : u[i] = PREFIX[i]

\* the bytes of u after the first 13
BodyOf(u) == SubSeq(u, Len(PREFIX) + 1, Len(u))

\* a '%' at position i of b followed by two hex digits
IsEscapeAt(b, i) ==
    /\ i >= 1
    /\ i + 2 <= Len(b)
    /\ b[i] = 37
    /\ b[i + 1] \in HexDigits
    /\ b[i + 2] \in HexDigits

\* the byte at position i is an allow-list character or part of an escape
Covered(b, i) ==
    \/ b[i] \in AllowList
    \/ \E j \in {i - 2, i - 1, i} : IsEscapeAt(b, j)

\* every byte of b is covered by the grammar
GrammarOk(b) == \A i \in 1..Len(b) : Covered(b, i)

RECURSIVE RefPercentDecode(_)
\* step 5 of the reference algorithm, for a body the grammar accepts
RefPercentDecode(b) ==
    IF b = <<>> THEN <<>>
    ELSE IF b[1] = 37
         THEN <<HexVal(b[2]) * 16 + HexVal(b[3])>>
                  \o RefPercentDecode(SubSeq(b, 4, Len(b)))
         ELSE <<b[1]>> \o RefPercentDecode(Tail(b))

\* the reference algorithm: prefix, empty body, grammar, percent-decoding, UTF-8
RefDecode(u) ==
    IF ~HasExactPrefix(u) THEN None
    ELSE IF BodyOf(u) = <<>> THEN None
    ELSE IF ~GrammarOk(BodyOf(u)) THEN None
    ELSE IF ~from_utf8_ok(RefPercentDecode(BodyOf(u))) THEN None
    ELSE Some(RefPercentDecode(BodyOf(u)))

\* how many characters encode writes for byte b
Width(b) == IF b \in AllowList THEN 1 ELSE 3

RECURSIVE OffsetOf(_, _)
\* how many characters of the output precede those of byte i
OffsetOf(bytes, i) ==
    IF i = 1 THEN Len(PREFIX)
    ELSE OffsetOf(bytes, i - 1) + Width(bytes[i - 1])

\* every escape of the accepted body b has upper-case digits and encodes a byte
\* outside the allow-list
Canonical(b) ==
    \A i \in 1..Len(b) :
        b[i] = 37 =>
            /\ b[i + 1] \notin 97..102
            /\ b[i + 2] \notin 97..102
            /\ (HexVal(b[i + 1]) * 16 + HexVal(b[i + 2])) \notin AllowList

---------------------------------------------------------------------------
(* The properties *)

\* C1: for every secret s, the empty one included, decode(encode(s)) returns a
\* value and that value is s.
RoundTrip ==
    pc = "roundtrip" => decoded = Some(input)

\* C1, without the empty secret: for every secret s but the empty one,
\* decode(encode(s)) returns s; decode(encode("")) returns no value.
RoundTripNonEmpty ==
    pc = "roundtrip" =>
        decoded = (IF input = <<>> THEN None ELSE Some(input))

\* C2: decode of an input that does not begin with the exact, case-sensitive
\* 13 bytes "secret-token:" returns no value.
PrefixRejection ==
    (pc = "decoded" /\ ~HasExactPrefix(input)) => decoded = None

\* "SECRET-TOKEN:hello" was decoded, to no value
PrefixRejectionWitness ==
    /\ pc = "decoded"
    /\ input = <<83, 69, 67, 82, 69, 84, 45, 84, 79, 75, 69, 78, 58>> \o Hello
    /\ decoded = None

\* C3: decode of exactly "secret-token:" returns no value.
EmptyBodyRejection ==
    (pc = "decoded" /\ input = PREFIX) => decoded = None

\* "secret-token:" was decoded
EmptyBodyWitness ==
    /\ pc = "decoded"
    /\ HasExactPrefix(input)
    /\ BodyOf(input) = <<>>
    /\ ~decoded.some

\* C4: decode of an input with the prefix whose body holds, at any position, a
\* byte that is neither an allow-list character nor part of a '%' with two hex
\* digits returns no value, whatever the percent-decoded bytes are.
GrammarRejection ==
    (/\ pc = "decoded"
     /\ HasExactPrefix(input)
     /\ \E i \in 1..Len(BodyOf(input)) : ~Covered(BodyOf(input), i))
        => decoded = None

\* "secret-token:%C5" followed by the raw byte 0x81 was rejected: the body starts
\* with a well-formed escape, ends with a byte outside the grammar, and its
\* percent-decoded bytes are the well-formed UTF-8 of U+0141
GrammarRejectionWitness ==
    /\ pc = "decoded"
    /\ input = PREFIX \o <<37, 67, 53, 129>>
    /\ from_utf8_ok(percent_decode(BodyOf(input)))
    /\ decoded = None

\* C5: decode of an input whose body matches the grammar in full and whose
\* percent-decoded bytes are not well-formed UTF-8 returns no value.
Utf8Rejection ==
    (/\ pc = "decoded"
     /\ HasExactPrefix(input)
     /\ GrammarOk(BodyOf(input))
     /\ ~from_utf8_ok(RefPercentDecode(BodyOf(input))))
        => decoded = None

\* "secret-token:%C5", a truncated two-byte sequence, was rejected
Utf8RejectionWitness ==
    /\ pc = "decoded"
    /\ input = PREFIX \o <<37, 67, 53>>
    /\ GrammarOk(BodyOf(input))
    /\ decoded = None

\* C6: for every ASCII byte c from 1 to 126 as a one-character secret, either
\* encode(c) holds no '%' and decode("secret-token:" + c) returns c, or encode(c)
\* is the prefix and one escape and decode("secret-token:" + c) returns no value;
\* the first case is that of the allow-list characters.
AllowListBoundary ==
    (pc = "verbatim" /\ Len(input) = 1 /\ input[1] \in 1..126) =>
        LET escaped == \E k \in 1..Len(encoded) : encoded[k] = 37
        IN  /\ ~escaped => decoded = Some(input)
            /\ escaped =>
                   /\ decoded = None
                   /\ Len(encoded) = Len(PREFIX) + 3
                   /\ encoded[Len(PREFIX) + 1] = 37
            /\ ~escaped <=> input[1] \in AllowList

\* the space was escaped by encode and rejected by decode when embedded as it is
AllowListBoundaryWitness ==
    /\ pc = "verbatim"
    /\ input = <<32>>
    /\ encoded = PREFIX \o <<37, 50, 48>>
    /\ decoded = None

\* C7: encode(s) is the prefix followed, for each byte b of s in order, by b
\* when b is in the allow-list and by '%' and the two upper-case hex digits of b
\* otherwise; so non-ASCII bytes and '%' are escaped and the output is ASCII.
EncodeOutputForm ==
    pc = "encoded" =>
        /\ Len(encoded) = OffsetOf(input, Len(input) + 1)
        /\ \A k \in 1..Len(PREFIX) : encoded[k] = PREFIX[k]
        /\ \A i \in 1..Len(input) :
               LET o == OffsetOf(input, i)
                   b == input[i]
               IN  IF b \in AllowList
                   THEN encoded[o + 1] = b
                   ELSE /\ encoded[o + 1] = 37
                        /\ encoded[o + 2] = UpperHexChars[(b \div 16) + 1]
                        /\ encoded[o + 3] = UpperHexChars[(b % 16) + 1]
        /\ \A i \in 1..Len(input) :
               (input[i] > 127 \/ input[i] = 37) =>
                   encoded[OffsetOf(input, i) + 1] = 37
        /\ \A k \in 1..Len(encoded) : encoded[k] < 128
        /\ input = Hello => encoded = PREFIX \o Hello
        /\ input = <<32>> => encoded = PREFIX \o <<37, 50, 48>>

\* "a" and U+0141 were encoded as "secret-token:a%C5%81"
EncodeOutputFormWitness ==
    /\ pc = "encoded"
    /\ input = <<97, 197, 129>>
    /\ encoded = PREFIX \o <<97, 37, 67, 53, 37, 56, 49>>

\* C8: decode returns for every input what the reference algorithm (prefix,
\* empty body, grammar on the body as given, percent-decoding, UTF-8) returns.
OrderOfChecksEquivalence ==
    pc = "decoded" => decoded = RefDecode(input)

\* "secret-token:%4" was rejected: the lenient percent-decoding keeps the
\* malformed escape and yields well-formed UTF-8, and the grammar does not match
OrderOfChecksWitness ==
    /\ pc = "decoded"
    /\ input = PREFIX \o <<37, 52>>
    /\ percent_decode(BodyOf(input)) = BodyOf(input)
    /\ from_utf8_ok(percent_decode(BodyOf(input)))
    /\ ~GrammarOk(BodyOf(input))
    /\ decoded = None

\* C9: decode strips the prefix once: when decode("secret-token:" + b) is s,
\* decode("secret-token:secret-token:" + b) is "secret-token:" + s, and
\* decode("secret-token:secret-token:") is "secret-token:".
PrefixStrippedOnce ==
    /\ (pc = "nested" /\ decoded.some) => nested = Some(PREFIX \o decoded.val)
    /\ (pc = "decoded" /\ input = PREFIX \o PREFIX) => decoded = Some(PREFIX)

\* "secret-token:secret-token:%C5%81" was decoded to "secret-token:" and U+0141
PrefixStrippedOnceWitness ==
    /\ pc = "nested"
    /\ input = PREFIX \o <<37, 67, 53, 37, 56, 49>>
    /\ decoded = Some(<<197, 129>>)
    /\ nested = Some(PREFIX \o <<197, 129>>)

\* C10: for an input u that decode accepts with result s, encode(s) is u exactly
\* when every escape of u has upper-case digits and encodes a byte outside the
\* allow-list; encode(s) decodes to s as well; and encode writes only such escapes.
CanonicalForm ==
    /\ pc = "reencoded" =>
           /\ (encoded = input) <=> Canonical(BodyOf(input))
           /\ decode(encoded) = decoded
    /\ pc = "encoded" => Canonical(BodyOf(encoded))

\* "secret-token:%c5%81" was accepted and encoded back as "secret-token:%C5%81"
CanonicalFormWitness ==
    /\ pc = "reencoded"
    /\ input = PREFIX \o <<37, 99, 53, 37, 56, 49>>
    /\ decoded = Some(<<197, 129>>)
    /\ encoded = PREFIX \o <<37, 67, 53, 37, 56, 49>>
    /\ encoded # input

====
